---- MODULE Spec2Model ----
(***************************************************************************)
(* A model of EBNFComposer (sglang/srt/function_call/ebnf_composer.py).    *)
(*                                                                         *)
(* Grammar text is modelled by the sequence of its EBNF tokens: a quoted   *)
(* literal is one token, written with its quotes ("\"x\""), a rule name is *)
(* one token, and "(", ")", "?", "*", "|" and "::=" are one token each.    *)
(* White space between tokens is not modelled.  The text build_ebnf        *)
(* returns is the sequence of its lines, each line a sequence of tokens.   *)
(* Python's None is the empty sequence and a present value v is <<v>>.     *)
(* A dict is the sequence of its items, in insertion order.                *)
(***************************************************************************)
EXTENDS Integers, Sequences, FiniteSets, TLC

VARIABLES
    args,            \* the arguments of the build_ebnf call (never assigned)
    pc,              \* position in build_ebnf
    root_rule,       \* Step 1
    ebnf_lines,      \* Step 2, then appended to
    templates,       \* Step 3: call_template, args_template, key_value_template
    tool_idx,        \* "for tool in tools"
    properties,      \* Step 4, per tool
    required_props,
    prop_idx,        \* "for prop_name, prop_schema in properties.items()"
    value_rule,      \* get_value_rule's result for the last property
    prop_kv_pairs,
    combined_args,
    result           \* the returned text, as lines

vars == <<args, pc, root_rule, ebnf_lines, templates, tool_idx, properties,
          required_props, prop_idx, value_rule, prop_kv_pairs, combined_args,
          result>>

----------------------------------------------------------------------------
(* Bounds of the model *)

MaxProps == 3
MaxTools == 2
MaxTypes == 2
MaxEnum == 2

----------------------------------------------------------------------------
(* Text helpers *)

None == <<>>
Some(v) == <<v>>

\* f'"{s}"': s between double quotes, one literal token
Lit(s) == "\"" \o s \o "\""

\* '\\"{s}\\"' inside a literal: s between escaped quotes
Esc(s) == "\\\"" \o s \o "\\\""

Range(s) == {s[i] : i \in 1..Len(s)}

RECURSIVE Flatten(_)
Flatten(ss) == IF ss = <<>> THEN <<>> ELSE Head(ss) \o Flatten(Tail(ss))

\* sep.join(parts) on token sequences
RECURSIVE Join(_, _)
Join(parts, sep) ==
    IF parts = <<>> THEN <<>>
    ELSE IF Len(parts) = 1 THEN parts[1]
    ELSE parts[1] \o sep \o Join(Tail(parts), sep)

\* dict lookup d[k] on a sequence of items [key, value]
Lookup(d, k) == d[CHOOSE i \in 1..Len(d) : d[i].key = k].value

Keys(d) == [i \in 1..Len(d) |-> d[i].key]

----------------------------------------------------------------------------
(* Grammar blocks *)

BASE_PRIMITIVE_GRAMMAR ==
    <<
       <<"basic_string", "::=", "(([\\\"] basic_string_1 [\\\"]))">>,
       <<"basic_string_1", "::=", "\"\" | [^\"\\\\\\x00-\\x1F] basic_string_1 | \"\\\\\" escape basic_string_1">>,
       <<"escape", "::=", "[\"\\\\/bfnrt] | \"u\" [A-Fa-f0-9]{4}">>,
       <<"basic_integer", "::=", "(\"0\" | \"-\"? [1-9] [0-9]*) \".0\"?">>,
       <<"basic_number", "::=", "(\"0\" | \"-\"? [1-9] [0-9]*) (\".\" [0-9]+)? ([eE] [+-]? [0-9]+)?">>,
       <<"basic_array", "::=", "\"[\" (\"\" | ws basic_any (ws \",\" ws basic_any)*) ws \"]\"">>,
       <<"basic_object", "::=", "\"{\" (\"\" | ws basic_string ws \":\" ws basic_any ( ws \",\" ws basic_string ws \":\" ws basic_any)*) ws \"}\"">>,
       <<"ws", "::=", "[ \\n\\t]*">>
    >>

json_grammar_ebnf_str ==
    <<
       <<"json", "::=", "basic_array | basic_object">>,
       <<"basic_any", "::=", "basic_number | basic_string | basic_boolean | basic_null | basic_array | basic_object">>,
       <<"basic_boolean", "::=", "\"true\" | \"false\"">>,
       <<"basic_null", "::=", "\"null\"">>
    >> \o BASE_PRIMITIVE_GRAMMAR

pythonic_grammar_ebnf_str ==
    <<
       <<"pythonic", "::=", "basic_number | basic_string | basic_array | \"True\" | \"False\" | \"None\"">>,
       <<"basic_any", "::=", "basic_number | basic_string | basic_array | basic_object">>,
       <<"basic_boolean", "::=", "\"True\" | \"False\"">>,
       <<"basic_null", "::=", "\"None\"">>
    >> \o BASE_PRIMITIVE_GRAMMAR

xml_grammar_ebnf_str ==
    <<
       <<"xml", "::=", "xml_element | xml_text">>,
       <<"xml_element", "::=", "basic_string | basic_number | basic_boolean | basic_null | basic_array | basic_object">>,
       <<"xml_text", "::=", "[^<>]*">>,
       <<"basic_any", "::=", "basic_number | basic_string | basic_boolean | basic_null | basic_array | basic_object">>,
       <<"basic_boolean", "::=", "\"true\" | \"false\"">>,
       <<"basic_null", "::=", "\"null\"">>
    >> \o BASE_PRIMITIVE_GRAMMAR

----------------------------------------------------------------------------
(* Format templates.  A template is a sequence of pieces [pre, hole, post]: *)
(* a piece without hole is the token pre; a piece with a hole and text      *)
(* around it is the token pre \o binding \o post; a bare hole is replaced   *)
(* by the bound token sequence.                                             *)

Tok(t) == [pre |-> t, hole |-> "", post |-> ""]
Hole(h) == [pre |-> "", hole |-> h, post |-> ""]
In(pre, h, post) == [pre |-> pre, hole |-> h, post |-> post]

\* str.format: bind is a record, hole name -> token sequence
FormatPiece(p, bind) ==
    IF p.hole = "" THEN <<p.pre>>
    ELSE IF p.pre = "" /\ p.post = "" THEN bind[p.hole]
    ELSE <<p.pre \o bind[p.hole][1] \o p.post>>

Format(template, bind) ==
    Flatten([i \in 1..Len(template) |-> FormatPiece(template[i], bind)])

CallHead == <<In("call_", "name", ""), Tok("::=")>>

CALL_RULE_MAP ==
    [pythonic |-> CallHead \o
        <<In("\"", "name", "\""), Tok(Lit("(")), Hole("arguments_rule"),
          Tok(Lit(")"))>>,
     json |-> CallHead \o
        <<Tok(Lit("{")), Tok(Lit(Esc("name"))), Tok(Lit(":")),
          In("\"\\\"", "name", "\\\"\""), Tok(Lit(", ")),
          Tok(Lit(Esc("arguments"))), Tok(Lit(":")), Hole("arguments_rule"),
          Tok(Lit("}"))>>,
     xml |-> CallHead \o
        <<In("\"<function=", "name", ">\\n\""), Hole("arguments_rule"),
          Tok(Lit("\\n</function>"))>>]

ARGUMENTS_RULE_MAP ==
    [pythonic |-> <<Hole("arg_rules")>>,
     json |-> <<Tok(Lit("{")), Hole("arg_rules"), Tok(Lit("}"))>>,
     xml |-> <<Hole("arg_rules")>>]

KEY_VALUE_RULE_MAP ==
    [pythonic |-> <<In("\"", "key", "\""), Tok(Lit("=")), Hole("valrule")>>,
     json |-> <<In("\"\\\"", "key", "\\\"\""), Tok(Lit(":")), Hole("valrule")>>,
     xml |-> <<In("\"<parameter=", "key", ">\\n\""), Hole("valrule"),
               Tok(Lit("\\n</parameter>"))>>]

BASE_TYPE_MAPPING ==
    [string |-> <<"basic_string">>,
     number |-> <<"basic_number">>,
     integer |-> <<"basic_number">>,
     boolean |-> <<"basic_boolean">>,
     null |-> <<"basic_null">>,
     array |-> <<"basic_array">>,
     object |-> <<"basic_object">>]

FORMAT_TYPE_OVERRIDES ==
    [pythonic |-> [boolean |-> <<Lit("True"), "|", Lit("False")>>,
                   null |-> <<Lit("None")>>],
     xml |-> [string |-> <<"xml_text">>]]

----------------------------------------------------------------------------
(* Value Rule Resolver.  An enum value is [k, b, s]: a bool b (k = "bool"), *)
(* a str s (k = "str") or an int written s (k = "int").  A schema is        *)
(* [has_enum, enum, type]; type is None or Some([is_list, names]).          *)

PyBool(b) == [k |-> "bool", b |-> b, s |-> ""]
PyStr(s) == [k |-> "str", b |-> FALSE, s |-> s]
PyInt(s) == [k |-> "int", b |-> FALSE, s |-> s]

\* "if v"
Truth(v) ==
    CASE v.k = "bool" -> v.b
      [] v.k = "str" -> v.s # ""
      [] OTHER -> v.s # "0"

\* str(v), and {v} in an f-string
StrOf(v) ==
    IF v.k = "bool" THEN (IF v.b THEN "True" ELSE "False") ELSE v.s

\* prop.get("type", "string")
PropType(prop) ==
    IF prop.type = None THEN [is_list |-> FALSE, names |-> <<"string">>]
    ELSE prop.type[1]

\* prop_type == t, for a type name t
TypeIs(prop_type, t) == ~prop_type.is_list /\ prop_type.names = <<t>>

format_enum_val(v, prop_type, function_format) ==
    IF TypeIs(prop_type, "boolean") THEN
        IF function_format = "json" \/ function_format = "xml"
        THEN (IF Truth(v) THEN "true" ELSE "false")
        ELSE IF function_format = "pythonic"
        THEN (IF Truth(v) THEN "True" ELSE "False")
        ELSE StrOf(v)
    ELSE IF TypeIs(prop_type, "string") THEN
        IF function_format = "xml" THEN Lit(StrOf(v))
        ELSE Lit(Esc(StrOf(v)))
    ELSE StrOf(v)

handle_enum(prop, function_format) ==
    LET enum_values == prop.enum
        prop_type == PropType(prop)
        formatted_values ==
            [i \in 1..Len(enum_values) |->
                <<format_enum_val(enum_values[i], prop_type, function_format)>>]
        enum_rule == Join(formatted_values, <<"|">>)
    IN  IF Len(formatted_values) > 1 THEN <<"(">> \o enum_rule \o <<")">>
        ELSE enum_rule

\* d.get(k, default) on a record
MapGet(d, k, default) == IF k \in DOMAIN d THEN d[k] ELSE default

\* a resolver that forgets the per-format overrides
get_type_mapping_base_only(function_format) == BASE_TYPE_MAPPING

get_type_mapping(function_format) ==
    LET overrides == MapGet(FORMAT_TYPE_OVERRIDES, function_format, <<>>)
    IN  [t \in (DOMAIN BASE_TYPE_MAPPING) \cup (DOMAIN overrides) |->
            IF t \in DOMAIN overrides THEN overrides[t]
            ELSE BASE_TYPE_MAPPING[t]]

handle_type(prop, function_format) ==
    LET prop_type == prop.type[1]
        type_mapping == get_type_mapping(function_format)
    IN  IF prop_type.is_list THEN
            LET type_rules ==
                    [i \in 1..Len(prop_type.names) |->
                        MapGet(type_mapping, prop_type.names[i],
                               <<function_format>>)]
            IN  IF type_rules # <<>> THEN Join(type_rules, <<"|">>)
                ELSE <<function_format>>
        ELSE MapGet(type_mapping, prop_type.names[1], <<function_format>>)

get_value_rule(prop, function_format) ==
    IF prop.has_enum THEN handle_enum(prop, function_format)
    ELSE IF prop.type # None THEN handle_type(prop, function_format)
    ELSE <<function_format>>

----------------------------------------------------------------------------
(* build_ebnf, Step 1: the root rule *)

\* truth of an Optional[str]
IsSet(o) == o # None /\ o[1] # ""

FunctionCallUnit(a) ==
    IF IsSet(a.individual_call_start_token) /\ IsSet(a.individual_call_end_token)
    THEN <<Lit(a.individual_call_start_token[1]), "function_call",
           Lit(a.individual_call_end_token[1])>>
    ELSE <<"function_call">>

BasePattern(a) ==
    IF a.tool_call_separator # None
    THEN FunctionCallUnit(a) \o <<"(", Lit(a.tool_call_separator[1])>>
            \o FunctionCallUnit(a) \o <<")", "*">>
    ELSE FunctionCallUnit(a)

\* a root rule that forgets the sequence-level wrapping
RootRule_never_wrapped(a) == BasePattern(a)

RootRule(a) ==
    IF IsSet(a.sequence_start_token) /\ IsSet(a.sequence_end_token)
    THEN <<Lit(a.sequence_start_token[1])>> \o BasePattern(a)
            \o <<Lit(a.sequence_end_token[1])>>
    ELSE BasePattern(a)

(* Step 2: the header rules *)

FunctionCallRule(tools) ==
    <<"function_call", "::=">>
        \o Join([i \in 1..Len(tools) |-> <<"call_" \o tools[i].name>>], <<"|">>)

HeaderRules(root, tools) ==
    << <<"root", "::=">> \o root, FunctionCallRule(tools) >>

(* Step 3: the templates; a lookup of a missing key raises KeyError *)

Formats == DOMAIN CALL_RULE_MAP

\* truth of an Optional[template]
IsGiven(o) == o # None /\ o[1] # <<>>

TemplatesRaise(a) ==
    \/ ~IsGiven(a.call_rule_fmt) /\ a.function_format \notin DOMAIN CALL_RULE_MAP
    \/ a.function_format \notin DOMAIN ARGUMENTS_RULE_MAP
    \/ ~IsGiven(a.key_value_rule_fmt)
        /\ a.function_format \notin DOMAIN KEY_VALUE_RULE_MAP

Templates(a) ==
    [call_template |->
        IF IsGiven(a.call_rule_fmt) THEN CallHead \o a.call_rule_fmt[1]
        ELSE CALL_RULE_MAP[a.function_format],
     args_template |-> ARGUMENTS_RULE_MAP[a.function_format],
     key_value_template |->
        IF IsGiven(a.key_value_rule_fmt) THEN a.key_value_rule_fmt[1]
        ELSE KEY_VALUE_RULE_MAP[a.function_format]]

(* Step 4: the rules of one tool *)

\* (tool.function.parameters or {}).get("properties", {})
PropertiesOf(tool) ==
    IF tool.parameters = None \/ tool.parameters[1].properties = None
    THEN <<>>
    ELSE tool.parameters[1].properties[1]

\* set((tool.function.parameters or {}).get("required", []))
RequiredPropsOf(tool) ==
    IF tool.parameters = None \/ tool.parameters[1].required = None
    THEN {}
    ELSE Range(tool.parameters[1].required[1])

KeyValuePair(key_value_template, prop_name, valrule) ==
    Format(key_value_template, [key |-> <<prop_name>>, valrule |-> valrule])

\* a partition that does not keep the declaration order
RequiredOf_reversed(ordered_props, req) ==
    LET r == SelectSeq(ordered_props, LAMBDA p : p \in req)
    IN  [i \in 1..Len(r) |-> r[Len(r) + 1 - i]]

RequiredOf(ordered_props, req) ==
    SelectSeq(ordered_props, LAMBDA p : p \in req)

OptionalOf(ordered_props, req) ==
    SelectSeq(ordered_props, LAMBDA p : p \notin req)

\* the pattern for optional[i] appearing first
OptAlternative(optional, i, kv, sep) ==
    Flatten([n \in 1..(Len(optional) - i + 1) |->
        LET j == i + n - 1
        IN  IF j = i THEN Lookup(kv, optional[j])
            ELSE <<"(", Lit(sep)>> \o Lookup(kv, optional[j]) \o <<")", "?">>])

OptAlternatives(optional, kv, sep) ==
    Join([i \in 1..Len(optional) |-> OptAlternative(optional, i, kv, sep)],
         <<"|">>)

RequiredPart(required, kv, sep) ==
    Join([i \in 1..Len(required) |-> Lookup(kv, required[i])], <<Lit(sep)>>)

OptionalPart(required, optional, kv, sep) ==
    IF required # <<>>
    THEN <<"(", Lit(sep), "(">> \o OptAlternatives(optional, kv, sep)
            \o <<")", ")", "?">>
    ELSE <<"(">> \o OptAlternatives(optional, kv, sep) \o <<")", "?">>

CombinedArgs(ordered_props, req, kv, sep) ==
    LET required == RequiredOf(ordered_props, req)
        optional == OptionalOf(ordered_props, req)
    IN  (IF required # <<>> THEN RequiredPart(required, kv, sep) ELSE <<>>)
        \o (IF optional # <<>> THEN OptionalPart(required, optional, kv, sep)
            ELSE <<>>)

\* an arguments rule that forgets the format's wrapper template
ArgumentsRule_unwrapped(args_template, combined) == combined

ArgumentsRule(args_template, combined) ==
    Format(args_template, [arg_rules |-> combined])

CallRule(call_template, tool_name) ==
    Format(call_template,
           [name |-> <<tool_name>>,
            arguments_rule |-> <<"arguments_" \o tool_name>>])

\* an emission that puts the arguments rule before the call rule
ToolRules_arguments_first(tpl, tool_name, combined) ==
    << <<"arguments_" \o tool_name, "::=">>
            \o ArgumentsRule(tpl.args_template, combined),
       CallRule(tpl.call_template, tool_name) >>

ToolRules(tpl, tool_name, combined) ==
    << CallRule(tpl.call_template, tool_name),
       <<"arguments_" \o tool_name, "::=">>
            \o ArgumentsRule(tpl.args_template, combined) >>

(* Step 5: the base grammar *)

BaseGrammar(function_format) ==
    MapGet([pythonic |-> pythonic_grammar_ebnf_str,
            json |-> json_grammar_ebnf_str,
            xml |-> xml_grammar_ebnf_str],
           function_format, json_grammar_ebnf_str)

(* The whole of build_ebnf, for a call that does not raise *)

KvPairsOf(a, tool) ==
    LET props == PropertiesOf(tool)
    IN  [i \in 1..Len(props) |->
            [key |-> props[i].key,
             value |-> KeyValuePair(Templates(a).key_value_template, props[i].key,
                            get_value_rule(props[i].value, a.function_format))]]

GrammarOf(a) ==
    HeaderRules(RootRule(a), a.tools)
    \o Flatten([i \in 1..Len(a.tools) |->
            ToolRules(Templates(a), a.tools[i].name,
                      CombinedArgs(Keys(PropertiesOf(a.tools[i])),
                                   RequiredPropsOf(a.tools[i]),
                                   KvPairsOf(a, a.tools[i]),
                                   a.key_value_separator))])
    \o BaseGrammar(a.function_format)

----------------------------------------------------------------------------
(* The steps of build_ebnf *)

Tool == args.tools[tool_idx]

DetermineRoot ==
    /\ pc = "start"
    /\ root_rule' = RootRule(args)
    /\ pc' = "header"
    /\ UNCHANGED <<args, ebnf_lines, templates, tool_idx, properties,
                   required_props, prop_idx, value_rule, prop_kv_pairs,
                   combined_args, result>>

BuildHeader ==
    /\ pc = "header"
    /\ ebnf_lines' = HeaderRules(root_rule, args.tools)
    /\ pc' = "templates"
    /\ UNCHANGED <<args, root_rule, templates, tool_idx, properties,
                   required_props, prop_idx, value_rule, prop_kv_pairs,
                   combined_args, result>>

SetUpTemplates ==
    /\ pc = "templates"
    /\ IF TemplatesRaise(args)
       THEN /\ pc' = "KeyError"
            /\ UNCHANGED <<templates, tool_idx>>
       ELSE /\ templates' = Templates(args)
            /\ tool_idx' = 1
            /\ pc' = "tools"
    /\ UNCHANGED <<args, root_rule, ebnf_lines, properties, required_props,
                   prop_idx, value_rule, prop_kv_pairs, combined_args, result>>

BeginTool ==
    /\ pc = "tools"
    /\ tool_idx <= Len(args.tools)
    /\ properties' = PropertiesOf(Tool)
    /\ required_props' = RequiredPropsOf(Tool)
    /\ prop_kv_pairs' = <<>>
    /\ prop_idx' = 1
    /\ pc' = "props"
    /\ UNCHANGED <<args, root_rule, ebnf_lines, templates, tool_idx,
                   value_rule, combined_args, result>>

MakeKeyValuePair ==
    /\ pc = "props"
    /\ prop_idx <= Len(properties)
    /\ LET prop_name == properties[prop_idx].key
           prop_schema == properties[prop_idx].value
           rule == get_value_rule(prop_schema, args.function_format)
           pair == KeyValuePair(templates.key_value_template, prop_name, rule)
       IN  /\ value_rule' = rule
           /\ prop_kv_pairs' =
                Append(prop_kv_pairs, [key |-> prop_name, value |-> pair])
    /\ prop_idx' = prop_idx + 1
    /\ UNCHANGED <<args, pc, root_rule, ebnf_lines, templates, tool_idx,
                   properties, required_props, combined_args, result>>

CombineRule ==
    /\ pc = "props"
    /\ prop_idx > Len(properties)
    /\ combined_args' = CombinedArgs(Keys(properties), required_props,
                                     prop_kv_pairs, args.key_value_separator)
    /\ pc' = "emit"
    /\ UNCHANGED <<args, root_rule, ebnf_lines, templates, tool_idx,
                   properties, required_props, prop_idx, value_rule,
                   prop_kv_pairs, result>>

EmitToolRules ==
    /\ pc = "emit"
    /\ ebnf_lines' = ebnf_lines \o ToolRules(templates, Tool.name, combined_args)
    /\ tool_idx' = tool_idx + 1
    /\ pc' = "tools"
    /\ UNCHANGED <<args, root_rule, templates, properties, required_props,
                   prop_idx, value_rule, prop_kv_pairs, combined_args, result>>

AddBaseGrammar ==
    /\ pc = "tools"
    /\ tool_idx > Len(args.tools)
    /\ ebnf_lines' = ebnf_lines \o BaseGrammar(args.function_format)
    /\ result' = ebnf_lines'
    /\ pc' = "done"
    /\ UNCHANGED <<args, root_rule, templates, tool_idx, properties,
                   required_props, prop_idx, value_rule, prop_kv_pairs,
                   combined_args>>

Next ==
    \/ DetermineRoot
    \/ BuildHeader
    \/ SetUpTemplates
    \/ BeginTool
    \/ MakeKeyValuePair
    \/ CombineRule
    \/ EmitToolRules
    \/ AddBaseGrammar

----------------------------------------------------------------------------
(* The calls checked *)

SeqsUpTo(S, n) == UNION {[1..k -> S] : k \in 0..n}

TypeSchema(names, is_list) ==
    [has_enum |-> FALSE, enum |-> <<>>,
     type |-> Some([is_list |-> is_list, names |-> names])]

EnumSchema(values, type) == [has_enum |-> TRUE, enum |-> values, type |-> type]

NoSchema == [has_enum |-> FALSE, enum |-> <<>>, type |-> None]

NoWrapping(tools, function_format) ==
    [tools |-> tools,
     function_format |-> function_format,
     sequence_start_token |-> None,
     sequence_end_token |-> None,
     individual_call_start_token |-> None,
     individual_call_end_token |-> None,
     tool_call_separator |-> None,
     call_rule_fmt |-> None,
     key_value_rule_fmt |-> None,
     key_value_separator |-> ","]

InitLocals ==
    /\ pc = "start"
    /\ root_rule = <<>>
    /\ ebnf_lines = <<>>
    /\ templates = <<>>
    /\ tool_idx = 0
    /\ properties = <<>>
    /\ required_props = {}
    /\ prop_idx = 0
    /\ value_rule = <<>>
    /\ prop_kv_pairs = <<>>
    /\ combined_args = <<>>
    /\ result = <<>>

(* Calls that vary the wrapping, the format, the overrides and the tools *)

CustomCallRuleFmt ==
    <<In("\"", "name", "\""), Tok(Lit("\\n")), Hole("arguments_rule")>>

CustomKeyValueRuleFmt ==
    <<In("\"<", "key", ">\""), Hole("valrule"), In("\"</", "key", ">\"")>>

ToolChoices ==
    { [name |-> "f", parameters |-> None],
      [name |-> "g",
       parameters |-> Some(
          [properties |-> Some(<<
              [key |-> "a", value |-> TypeSchema(<<"string">>, FALSE)],
              [key |-> "b", value |-> EnumSchema(<<PyStr("u"), PyStr("v")>>, None)]>>),
           required |-> Some(<<"a">>)])] }

InitCall ==
    /\ InitLocals
    /\ args \in
        [tools : SeqsUpTo(ToolChoices, MaxTools),
         function_format : {"json", "pythonic", "xml", "yaml"},
         sequence_start_token : {None, Some(""), Some("<tools>")},
         sequence_end_token : {None, Some("</tools>")},
         individual_call_start_token : {None, Some("<call>")},
         individual_call_end_token : {None, Some("</call>")},
         tool_call_separator : {None, Some(";")},
         call_rule_fmt : {None, Some(CustomCallRuleFmt)},
         key_value_rule_fmt : {None, Some(CustomKeyValueRuleFmt)},
         key_value_separator : {","}]

Spec == InitCall /\ [][Next]_vars

(* Calls that vary the properties of one tool *)

PropNames == <<"x", "y", "z", "w", "v">>

ArgSchemas ==
    { TypeSchema(<<"string">>, FALSE),
      TypeSchema(<<"boolean">>, FALSE),
      TypeSchema(<<"integer", "null">>, TRUE),
      EnumSchema(<<PyStr("a"), PyStr("b")>>, None) }

\* the declared properties: the first n names, each with a schema
PropertySets ==
    UNION { { [i \in 1..n |-> [key |-> PropNames[i], value |-> sch[i]]] :
                sch \in [1..n -> ArgSchemas] } : n \in 0..MaxProps }

\* the names of S, last declared first
RECURSIVE Reversed(_, _)
Reversed(S, n) ==
    IF n = 0 THEN <<>>
    ELSE (IF PropNames[n] \in S THEN <<PropNames[n]>> ELSE <<>>)
            \o Reversed(S, n - 1)

ParameterSets ==
    {None, Some([properties |-> None, required |-> None])}
    \cup UNION { { Some([properties |-> Some(props),
                         required |-> Some(Reversed(S, Len(props)))]) :
                     S \in SUBSET Range(Keys(props)) } : props \in PropertySets }

InitArgs ==
    /\ InitLocals
    /\ \E ps \in ParameterSets, f \in {"json", "pythonic", "xml"} :
          args = NoWrapping(<<[name |-> "f", parameters |-> ps]>>, f)

SpecArgs == InitArgs /\ [][Next]_vars

(* Calls that vary the schema of one property *)

TypeNames ==
    {"string", "number", "integer", "boolean", "null", "array", "object", "date"}

ListedTypeNames == {"string", "boolean", "null", "date"}

EnumValues == {PyBool(TRUE), PyBool(FALSE), PyStr("a"), PyInt("0")}

EnumTypes ==
    {None} \cup { Some([is_list |-> FALSE, names |-> <<t>>]) :
                    t \in {"boolean", "string", "integer"} }

ValueSchemas ==
    {NoSchema}
    \cup { TypeSchema(<<t>>, FALSE) : t \in TypeNames }
    \cup { TypeSchema(ts, TRUE) : ts \in SeqsUpTo(ListedTypeNames, MaxTypes) }
    \cup { EnumSchema(vs, t) : vs \in SeqsUpTo(EnumValues, MaxEnum), t \in EnumTypes }

InitValue ==
    /\ InitLocals
    /\ \E sch \in ValueSchemas, req \in {<<>>, <<"x">>},
          f \in {"json", "pythonic", "xml"} :
          args = NoWrapping(
            <<[name |-> "f",
               parameters |-> Some([properties |-> Some(<<[key |-> "x", value |-> sch]>>),
                                    required |-> Some(req)])]>>, f)

SpecValue == InitValue /\ [][Next]_vars

----------------------------------------------------------------------------
(* The language of a rule's right side under EBNF precedence: "|" binds     *)
(* weakest, then concatenation, then the postfix "?"; parentheses group.    *)
(* Rule names count as terminal symbols.  No argument rule has a "*".       *)

Concat(A, B) == {a \o b : a \in A, b \in B}

\* the nesting depth of position i
Depth(toks, i) ==
    Cardinality({j \in 1..(i - 1) : toks[j] = "("})
        - Cardinality({j \in 1..(i - 1) : toks[j] = ")"})

TopBars(toks) == {i \in 1..Len(toks) : toks[i] = "|" /\ Depth(toks, i) = 0}

Min(S) == CHOOSE m \in S : \A n \in S : m <= n

\* the ")" that closes the "(" at position 1
MatchClose(toks) ==
    Min({c \in 2..Len(toks) : toks[c] = ")" /\ Depth(toks, c) = 1})

RECURSIVE Lang(_)
Lang(toks) ==
    IF toks = <<>> THEN {<<>>}
    ELSE IF TopBars(toks) # {} THEN
        LET b == Min(TopBars(toks))
        IN  Lang(SubSeq(toks, 1, b - 1)) \cup Lang(SubSeq(toks, b + 1, Len(toks)))
    ELSE IF toks[1] = "(" THEN
        LET c == MatchClose(toks)
            opt == c < Len(toks) /\ toks[c + 1] = "?"
            inner == Lang(SubSeq(toks, 2, c - 1))
            rest == SubSeq(toks, IF opt THEN c + 2 ELSE c + 1, Len(toks))
        IN  Concat(IF opt THEN inner \cup {<<>>} ELSE inner, Lang(rest))
    ELSE Concat({<<toks[1]>>}, Lang(Tail(toks)))

(* What the claims compare the generated rules with *)

Declared == Keys(properties)
Sep == Lit(args.key_value_separator)

SchemaOf(name) == Lookup(properties, name)

\* the key-value pair of a property with its value rule taken as one unit:
\* the text before {valrule}, one alternative of the value rule, the text after
PairWords(name) ==
    LET tpl == templates.key_value_template
        h == CHOOSE i \in 1..Len(tpl) : tpl[i].hole = "valrule"
        bind == [key |-> <<name>>, valrule |-> <<>>]
    IN  Concat(Concat({Format(SubSeq(tpl, 1, h - 1), bind)},
                      Lang(get_value_rule(SchemaOf(name), args.function_format))),
               {Format(SubSeq(tpl, h + 1, Len(tpl)), bind)})

\* the words for the properties of L, in this order, one separator between
RECURSIVE ChainWords(_)
ChainWords(L) ==
    IF L = <<>> THEN {<<>>}
    ELSE IF Len(L) = 1 THEN PairWords(L[1])
    ELSE Concat(Concat(PairWords(L[1]), {<<Sep>>}), ChainWords(Tail(L)))

\* the order-preserving subsequences of L
SubSeqsOf(L) == {SelectSeq(L, LAMBDA p : p \in S) : S \in SUBSET Range(L)}

\* the sequences of distinct elements of S, in any order
RECURSIVE Orderings(_)
Orderings(S) ==
    {<<>>} \cup UNION {{<<p>> \o rest : rest \in Orderings(S \ {p})} : p \in S}

DeclaredRequired == SelectSeq(Declared, LAMBDA p : p \in required_props)
DeclaredOptional == SelectSeq(Declared, LAMBDA p : p \notin required_props)

\* the right side of the arguments rule of the tool just emitted
ArgumentsRhs == SubSeq(ebnf_lines[4], 3, Len(ebnf_lines[4]))

AtCombined == pc = "emit"

\* C1: with no required property, the fragment accepts exactly the
\* order-preserving subsequences of the declared (optional) properties, each
\* with one separator between adjacent properties.
C1_OptionalSubsets ==
    (AtCombined /\ DeclaredRequired = <<>>)
        => Lang(combined_args)
            = UNION {ChainWords(S) : S \in SubSeqsOf(DeclaredOptional)}

\* C2: with required and optional properties the fragment is the required
\* chain followed by ( SEP ( alternation ) )?, and it accepts exactly the
\* required properties in order followed by an order-preserving subsequence of
\* the optional ones (the required-only sequence included).
C2_RequiredThenOptional ==
    (AtCombined /\ DeclaredRequired # <<>> /\ DeclaredOptional # <<>>)
        => LET chain == Join([i \in 1..Len(DeclaredRequired) |->
                                Lookup(prop_kv_pairs, DeclaredRequired[i])],
                             <<Sep>>)
               n == Len(combined_args)
           IN  /\ n >= Len(chain) + 6
               /\ SubSeq(combined_args, 1, Len(chain) + 3)
                    = chain \o <<"(", Sep, "(">>
               /\ SubSeq(combined_args, n - 2, n) = <<")", ")", "?">>
               /\ Lang(combined_args)
                    = UNION {ChainWords(DeclaredRequired \o S) :
                                S \in SubSeqsOf(DeclaredOptional)}

\* C10: every string the arguments rule accepts is made of whole key-value
\* pairs (each value alternative behind its own key) and holds every required
\* property.
C10_AlternativesStayInPair ==
    (pc = "tools" /\ tool_idx = 2)
        => \A w \in Lang(ArgumentsRhs) :
              \E L \in Orderings(Range(Declared)) :
                 /\ required_props \cap Range(Declared) \subseteq Range(L)
                 /\ \E u \in ChainWords(L) :
                       w = Format(templates.args_template, [arg_rules |-> u])

\* the same three statements for tools whose value rules are single units
\* (one rule name, one literal, or a parenthesised enum)
RulesAreUnits ==
    \A i \in 1..Len(properties) :
        TopBars(get_value_rule(properties[i].value, args.function_format)) = {}

UnitRulesCombineCorrectly ==
    RulesAreUnits =>
        /\ C1_OptionalSubsets
        /\ C2_RequiredThenOptional
        /\ C10_AlternativesStayInPair

----------------------------------------------------------------------------
(* All properties required; the partition *)

Count(toks, t) == Cardinality({i \in 1..Len(toks) : toks[i] = t})

Pos(p) == CHOOSE i \in 1..Len(Declared) : Declared[i] = p

InDeclaredOrder(L) == \A i, j \in 1..Len(L) : i < j => Pos(L[i]) < Pos(L[j])

\* the "required" list as the caller wrote it
RequiredList ==
    LET ps == args.tools[1].parameters
    IN  IF ps = None \/ ps[1].required = None THEN <<>> ELSE ps[1].required[1]

\* C3: when every declared property is required the fragment is the key-value
\* pairs in declaration order joined by the separator, with no optional group;
\* in general the required and the optional partition each keep the
\* declaration order and every declared property is in exactly one of them.
C3_AllRequiredInDeclarationOrder ==
    AtCombined =>
        LET r == RequiredOf(Declared, required_props)
            o == OptionalOf(Declared, required_props)
        IN  /\ InDeclaredOrder(r) /\ InDeclaredOrder(o)
            /\ Range(r) \cap Range(o) = {}
            /\ Range(r) \cup Range(o) = Range(Declared)
            /\ Len(r) + Len(o) = Len(Declared)
            /\ Range(r) = Range(Declared) \cap required_props
            /\ (Declared # <<>> /\ Range(Declared) \subseteq required_props)
                => /\ \A i \in 1..Len(Declared) : prop_kv_pairs[i].key = Declared[i]
                   /\ combined_args
                        = Join([i \in 1..Len(Declared) |-> prop_kv_pairs[i].value],
                               <<Sep>>)
                   /\ Count(combined_args, "?") = 0
                   /\ Count(combined_args, Sep) = Len(Declared) - 1

C3_Witness ==
    /\ AtCombined
    /\ Len(Declared) = 3
    /\ Range(Declared) \subseteq required_props
    /\ RequiredList = <<"z", "y", "x">>
    /\ args.function_format = "json"
    /\ combined_args = <<Lit(Esc("x")), Lit(":"), "basic_string", Sep,
                         Lit(Esc("y")), Lit(":"), "basic_string", Sep,
                         Lit(Esc("z")), Lit(":"), "basic_string">>

----------------------------------------------------------------------------
(* Unknown format *)

\* C4: with a format that is none of json, pythonic, xml and no template
\* override, build_ebnf does not fail and returns what it returns for json.
C4_UnknownFormatFallsBackToJson ==
    (/\ args.function_format \notin {"json", "pythonic", "xml"}
     /\ args.call_rule_fmt = None
     /\ args.key_value_rule_fmt = None)
        => /\ pc # "KeyError"
           /\ pc = "done" => result = GrammarOf([args EXCEPT !.function_format = "json"])

\* the steps compute the text GrammarOf states
StepsComputeGrammarOf == pc = "done" => result = GrammarOf(args)

----------------------------------------------------------------------------
(* Value rules *)

TheSchema == properties[1].value
ValueRuleReady == pc = "props" /\ prop_idx = 2

BooleanSpelling(b, function_format) ==
    IF function_format = "pythonic" THEN (IF b THEN "True" ELSE "False")
    ELSE (IF b THEN "true" ELSE "false")

\* C5: a boolean enum is rendered as quoted literals in the format's boolean
\* spelling: [true, false] gives ("True" | "False") in pythonic and
\* ("true" | "false") in json and xml; one element gives the bare literal.
C5_BooleanEnumQuotedLiterals ==
    (/\ ValueRuleReady
     /\ TheSchema.has_enum
     /\ TheSchema.type = Some([is_list |-> FALSE, names |-> <<"boolean">>])
     /\ \A i \in 1..Len(TheSchema.enum) : TheSchema.enum[i].k = "bool")
        => LET f == args.function_format
               e == TheSchema.enum
           IN  /\ Len(e) = 1 => value_rule = <<Lit(BooleanSpelling(e[1].b, f))>>
               /\ Len(e) = 2 => value_rule = <<"(", Lit(BooleanSpelling(e[1].b, f)), "|",
                                              Lit(BooleanSpelling(e[2].b, f)), ")">>

\* the rule of one type name: the format's override, else the base mapping,
\* else the format's top-level value rule
Resolved(t, f) ==
    IF f \in DOMAIN FORMAT_TYPE_OVERRIDES /\ t \in DOMAIN FORMAT_TYPE_OVERRIDES[f]
    THEN FORMAT_TYPE_OVERRIDES[f][t]
    ELSE IF t \in DOMAIN BASE_TYPE_MAPPING THEN BASE_TYPE_MAPPING[t]
    ELSE <<f>>

ResolvedList(ts, f) == Join([i \in 1..Len(ts) |-> Resolved(ts[i], f)], <<"|">>)

C6_SingleAndFallback ==
    LET f == args.function_format
        sch == TheSchema
    IN  /\ (~sch.has_enum /\ sch.type = None) => value_rule = <<f>>
        /\ (~sch.has_enum /\ sch.type # None /\ ~sch.type[1].is_list)
                => value_rule = Resolved(sch.type[1].names[1], f)
        /\ (sch.has_enum /\ sch.type # None)
                => /\ value_rule = handle_enum(sch, f)
                   /\ value_rule # Resolved(sch.type[1].names[1], f)

\* C6 as claimed: without enum a type name resolves to the override, else the
\* base entry, else the top-level rule name; a list of N names resolves to the
\* N rules joined by "|"; enum wins over type.
C6_TypeResolution ==
    ValueRuleReady =>
        /\ C6_SingleAndFallback
        /\ (~TheSchema.has_enum /\ TheSchema.type # None /\ TheSchema.type[1].is_list)
                => value_rule = ResolvedList(TheSchema.type[1].names, args.function_format)

\* C6 amended: the list rule holds for a non-empty list; an empty list
\* resolves to the format's top-level value rule name.
C6_TypeResolutionNonEmptyList ==
    ValueRuleReady =>
        /\ C6_SingleAndFallback
        /\ (~TheSchema.has_enum /\ TheSchema.type # None /\ TheSchema.type[1].is_list)
                => value_rule =
                     IF TheSchema.type[1].names # <<>>
                     THEN ResolvedList(TheSchema.type[1].names, args.function_format)
                     ELSE <<args.function_format>>

C6_Witness ==
    /\ ValueRuleReady
    /\ args.function_format = "pythonic"
    /\ TheSchema = TypeSchema(<<"boolean", "date">>, TRUE)
    /\ value_rule = <<Lit("True"), "|", Lit("False"), "|", "pythonic">>

----------------------------------------------------------------------------
(* The root rule *)

Configured(o) == o # None /\ o # Some("")

\* C7: root is [seq_start] unit ( SEP unit )* [seq_end], unit being
\* [call_start] function_call [call_end]; a wrapper is there only when both
\* its tokens are configured, the repetition only when a separator is; with
\* sequence tokens and separator configured each occurs exactly once, the
\* sequence tokens outermost.
C7_RootRuleShape ==
    pc # "start" =>
        LET a == args
            seq_on == Configured(a.sequence_start_token)
                        /\ Configured(a.sequence_end_token)
            call_on == Configured(a.individual_call_start_token)
                        /\ Configured(a.individual_call_end_token)
            sep_on == a.tool_call_separator # None
            unit == IF call_on
                    THEN <<Lit(a.individual_call_start_token[1]), "function_call",
                           Lit(a.individual_call_end_token[1])>>
                    ELSE <<"function_call">>
            n == Len(root_rule)
        IN  /\ root_rule =
                  (IF seq_on THEN <<Lit(a.sequence_start_token[1])>> ELSE <<>>)
                  \o unit
                  \o (IF sep_on
                      THEN <<"(", Lit(a.tool_call_separator[1])>> \o unit \o <<")", "*">>
                      ELSE <<>>)
                  \o (IF seq_on THEN <<Lit(a.sequence_end_token[1])>> ELSE <<>>)
            /\ Count(root_rule, "function_call") = (IF sep_on THEN 2 ELSE 1)
            /\ Count(root_rule, "*") = (IF sep_on THEN 1 ELSE 0)
            /\ ~seq_on => \A o \in {a.sequence_start_token, a.sequence_end_token} :
                            o # None => Count(root_rule, Lit(o[1])) = 0
            /\ ~call_on => \A o \in {a.individual_call_start_token,
                                     a.individual_call_end_token} :
                            o # None => Count(root_rule, Lit(o[1])) = 0
            /\ (seq_on /\ sep_on)
                => /\ root_rule[1] = Lit(a.sequence_start_token[1])
                   /\ root_rule[n] = Lit(a.sequence_end_token[1])
                   /\ Count(root_rule, Lit(a.sequence_start_token[1])) = 1
                   /\ Count(root_rule, Lit(a.sequence_end_token[1])) = 1
                   /\ Count(root_rule, Lit(a.tool_call_separator[1])) = 1

C7_Witness ==
    /\ pc = "header"
    /\ args.sequence_start_token = Some("<tools>")
    /\ args.sequence_end_token = Some("</tools>")
    /\ args.tool_call_separator = Some(";")
    /\ root_rule = <<Lit("<tools>"), "function_call", "(", Lit(";"),
                     "function_call", ")", "*", Lit("</tools>")>>

----------------------------------------------------------------------------
(* The returned text *)

ToolNames == {t.name : t \in ToolChoices}

\* C8: the returned text is the root rule, the function_call rule (the
\* call_<name> of every tool in input order, nothing for no tool), then per
\* tool its call_<name> rule followed by its arguments_<name> rule, the call
\* rule referring to arguments_<name> only, and last the format's base block;
\* every call_<name> of function_call is defined.
C8_GrammarLayout ==
    pc = "done" =>
        LET tools == args.tools
            n == Len(tools)
            f == args.function_format
            base == CASE f = "json" -> json_grammar_ebnf_str
                      [] f = "pythonic" -> pythonic_grammar_ebnf_str
                      [] f = "xml" -> xml_grammar_ebnf_str
        IN  /\ Len(result) = 2 + 2 * n + Len(base)
            /\ result[1] = <<"root", "::=">> \o root_rule
            /\ SubSeq(result[2], 1, 2) = <<"function_call", "::=">>
            /\ Len(result[2]) = (IF n = 0 THEN 2 ELSE 2 * n + 1)
            /\ \A i \in 1..n :
                /\ result[2][2 * i + 1] = "call_" \o tools[i].name
                /\ i < n => result[2][2 * i + 2] = "|"
                /\ \E j \in 3..(2 * n + 2) : result[j][1] = result[2][2 * i + 1]
                /\ SubSeq(result[2 * i + 1], 1, 2)
                        = <<"call_" \o tools[i].name, "::=">>
                /\ SubSeq(result[2 * i + 2], 1, 2)
                        = <<"arguments_" \o tools[i].name, "::=">>
                /\ Count(result[2 * i + 1], "arguments_" \o tools[i].name) = 1
                /\ \A m \in ToolNames \ {tools[i].name} :
                        Count(result[2 * i + 1], "arguments_" \o m) = 0
            /\ SubSeq(result, 2 * n + 3, Len(result)) = base

C8_Witness ==
    /\ pc = "done"
    /\ Len(args.tools) = 2
    /\ args.tools[1].name = "g"
    /\ args.tools[2].name = "f"
    /\ args.function_format = "xml"
    /\ result[2] = <<"function_call", "::=", "call_g", "|", "call_f">>
    /\ result[5][1] = "call_f"

----------------------------------------------------------------------------
(* A tool without parameters *)

NoProperties ==
    LET ps == args.tools[1].parameters
    IN  \/ ps = None
        \/ ps[1].properties = None
        \/ ps[1].properties = Some(<<>>)

\* C9: for a tool without parameters or with an empty property mapping the
\* arguments rule is the format's wrapper around nothing ("{" "}" for json,
\* an empty right side for pythonic and xml), the call rule is the format's
\* call rule, and the fragment has no pair, separator or optional group.
C9_EmptyArguments ==
    (NoProperties /\ Len(ebnf_lines) >= 4)
        => LET f == args.function_format
           IN  /\ combined_args = <<>>
               /\ ebnf_lines[4] =
                    <<"arguments_f", "::=">>
                    \o (IF f = "json" THEN <<"\"{\"", "\"}\"">> ELSE <<>>)
               /\ ebnf_lines[3] =
                    CASE f = "json" ->
                            <<"call_f", "::=", "\"{\"", "\"\\\"name\\\"\"", "\":\"",
                              "\"\\\"f\\\"\"", "\", \"", "\"\\\"arguments\\\"\"",
                              "\":\"", "arguments_f", "\"}\"">>
                      [] f = "pythonic" ->
                            <<"call_f", "::=", "\"f\"", "\"(\"", "arguments_f", "\")\"">>
                      [] f = "xml" ->
                            <<"call_f", "::=", "\"<function=f>\\n\"", "arguments_f",
                              "\"\\n</function>\"">>

C9_Witness ==
    /\ pc = "done"
    /\ args.tools[1].parameters = None
    /\ args.function_format = "json"
    /\ ebnf_lines[4] = <<"arguments_f", "::=", "\"{\"", "\"}\"">>

====
